---- MODULE Spec2Model ----
(***************************************************************************)
(* The alert store of audit_server/main.go: the bounded in-memory history  *)
(* (alerts, nextID), its JSON snapshot on disk (dataFile), and the HTTP    *)
(* handlers that append to it, list it, reload it and rotate it, all       *)
(* serialised by the mutex alertsMu.                                       *)
(***************************************************************************)
EXTENDS Integers, Sequences, FiniteSets, TLC

(***************************************************************************)
(* Bounds of the model.                                                    *)
(***************************************************************************)
\* Requests accepted in one behaviour of Spec.
MaxRequests == 3
\* Requests accepted in one behaviour of SpecFull.
MaxFullRequests == 2
\* Disk operations (os.WriteFile, os.ReadFile) that fail in one behaviour.
MaxDiskFailures == 1
\* The wall clock runs over the seconds 0..MaxClock.
MaxClock == 1
\* Appends in one behaviour of SpecAppend (more than maxStore).
MaxAppends == 502
\* Requests accepted in one behaviour of SpecIngest.
MaxIngestRequests == 1
\* Requests accepted in one behaviour of SpecRestart.
MaxRestartRequests == 2

\* main.go:74, the capacity of the rolling window.
maxStore == 500

\* The request goroutines that run concurrently.
Procs == {"p1", "p2"}

(***************************************************************************)
(* Strings: the functions of package strings that the handlers use.        *)
(***************************************************************************)
Min(S) == CHOOSE m \in S : \A n \in S : m <= n
Max(S) == CHOOSE m \in S : \A n \in S : m >= n

CharAt(s, i) == SubSeq(s, i, i)

IsSpace(c) == c \in {" ", "\t", "\n", "\r"}

\* strings.TrimSpace
TrimSpace(s) ==
    LET keep == {i \in 1..Len(s) : ~IsSpace(CharAt(s, i))}
    IN  IF keep = {} THEN "" ELSE SubSeq(s, Min(keep), Max(keep))

\* strings.HasPrefix
HasPrefix(s, p) == Len(s) >= Len(p) /\ SubSeq(s, 1, Len(p)) = p

\* strings.Index, 0-based as in Go, -1 when sub does not occur.
Index(s, sub) ==
    LET at == {i \in 1..(Len(s) - Len(sub) + 1) : SubSeq(s, i, i + Len(sub) - 1) = sub}
    IN  IF at = {} THEN -1 ELSE Min(at) - 1

\* strings.Contains
Contains(s, sub) == Index(s, sub) >= 0

UpperCase == "ABCDEFGHIJKLMNOPQRSTUVWXYZ"
LowerCase == "abcdefghijklmnopqrstuvwxyz"

\* unicode.ToLower on A-Z; the other bytes of a key fold to themselves.
LowerOf ==
    [c \in {CharAt(UpperCase, i) : i \in 1..Len(UpperCase)} |->
        CharAt(LowerCase, Min({i \in 1..Len(UpperCase) : CharAt(UpperCase, i) = c}))]

FoldChar(c) == IF c \in DOMAIN LowerOf THEN LowerOf[c] ELSE c

\* strings.EqualFold, on the ASCII keys the payloads carry.
EqualFold(s, t) ==
    \/ s = t
    \/ /\ Len(s) = Len(t)
       /\ \A i \in 1..Len(s) : FoldChar(CharAt(s, i)) = FoldChar(CharAt(t, i))

(***************************************************************************)
(* JSON.  A value is [t, s, o]: its JSON type, the text of a string or     *)
(* number, and for an object or an array its members in document order,    *)
(* each [k, v] (k is "" for the elements of an array).                     *)
(***************************************************************************)
JStr(s) == [t |-> "string", s |-> s, o |-> <<>>]
JNum(s) == [t |-> "number", s |-> s, o |-> <<>>]
JBool(s) == [t |-> "bool", s |-> s, o |-> <<>>]
JNull == [t |-> "null", s |-> "", o |-> <<>>]
JObj(members) == [t |-> "object", s |-> "", o |-> members]
JArr(elems) == [t |-> "array", s |-> "", o |-> [i \in 1..Len(elems) |-> [k |-> "", v |-> elems[i]]]]
\* What json.Unmarshal is given when the bytes are not valid JSON.
NoJSON == [t |-> "invalid", s |-> "", o |-> <<>>]
M(k, v) == [k |-> k, v |-> v]

\* json.Unmarshal into map[string]interface{}: the Go map of an object's
\* members, the last of two equal keys winning.
ToMap(o) ==
    [k \in {o[i].k : i \in 1..Len(o)} |->
        o[Max({i \in 1..Len(o) : o[i].k = k})].v]

EmptyMap == ToMap(<<>>)

(***************************************************************************)
(* A request body: its bytes (a name for them), whether they are valid     *)
(* UTF-8, the JSON value they parse to (NoJSON if they are not JSON), and  *)
(* what url.ParseQuery finds in the form field "payload": its text and the *)
(* JSON value of that text.  layout tells whether json.MarshalIndent       *)
(* rewrites the JSON text when it is stored as Alert.Raw ("wire") or       *)
(* leaves its bytes alone ("canon", as for null or {}).                    *)
(***************************************************************************)
Body(bytes, utf8, json, payloadText, payload, layout) ==
    [bytes |-> bytes, utf8 |-> utf8, json |-> json,
     payloadText |-> payloadText, payload |-> payload, layout |-> layout]

CollectorJSON ==
    JObj(<<M("alert", JStr("RED_EXEC")), M("host", JStr("debian")),
           M("exe", JStr("/tmp/x")), M("euid", JStr("0")), M("auid", JStr("1000")),
           M("raw", JStr("type=SYSCALL AUID=\"nala\" success=yes"))>>)

GenericJSON ==
    JObj(<<M("result", JObj(<<M("host", JStr("h1")), M("src_ip", JStr("1.2.3.4"))>>)),
           M("search_name", JStr("S"))>>)

BodyCollector == Body("{collector}", TRUE, CollectorJSON, "", NoJSON, "wire")
BodyGeneric == Body("{generic}", TRUE, GenericJSON, "", NoJSON, "wire")
BodyForm == Body("payload={generic}", TRUE, NoJSON, "{generic}", GenericJSON, "wire")
BodyText == Body("hello", TRUE, NoJSON, "", NoJSON, "wire")
BodyBinary == Body("<ff><fe>", FALSE, NoJSON, "", NoJSON, "wire")
BodyEmpty == Body("", TRUE, NoJSON, "", NoJSON, "wire")

\* The bodies that the requests of Spec carry.
Bodies == {BodyCollector, BodyForm, BodyBinary}

\* A collector body as the sender writes it, every field a JSON string.
CollectorBody(exe, euid, auid, raw) ==
    Body("{alert:RED_EXEC,exe:" \o exe \o ",euid:" \o euid \o ",auid:" \o auid
             \o ",raw:" \o raw \o "}",
         TRUE,
         JObj(<<M("alert", JStr("RED_EXEC")), M("host", JStr("debian")),
                M("exe", JStr(exe)), M("euid", JStr(euid)), M("auid", JStr(auid)),
                M("raw", JStr(raw))>>),
         "", NoJSON, "wire")

\* Executable paths: the three HIGH prefixes, the four allow-listed ones, an
\* unlisted one, none, and two with surrounding white space.
ExePaths ==
    {"/tmp/x", "/dev/shm/a", "/var/tmp/b", "/usr/bin/ls", "/bin/sh", "/usr/sbin/sshd",
     "/sbin/init", "/opt/app", "", " /tmp/x", "  "}
Euids == {"0", "1000", "", " 0"}
Auids == {"1000", "", " 7 "}
RawEvents ==
    {"", "type=SYSCALL AUID=\"nala\" success=yes", "AUID=\"\" success=no", "AUID=\"nala"}

\* The bodies that vary what severityFromCollector reads, and those that
\* vary what collectorTitle reads.
SeverityBodies == {CollectorBody(exe, euid, "1000", "") : exe \in ExePaths, euid \in Euids}
TitleBodies ==
    {CollectorBody(exe, euid, auid, raw) :
        exe \in {"/tmp/x", "", "  "}, euid \in {"0", "1000", " 0"},
        auid \in Auids, raw \in RawEvents}

\* Collector fields as JSON numbers, and an alert field that is blank, null
\* or missing.
BodyNumeric ==
    Body("{alert:RED_EXEC,exe:/tmp/x,euid:0,pid:1234}", TRUE,
         JObj(<<M("alert", JStr("RED_EXEC")), M("exe", JStr("/tmp/x")),
                M("euid", JNum("0")), M("pid", JNum("1234"))>>),
         "", NoJSON, "wire")
BlankAlertBody(name, members) ==
    Body(name, TRUE,
         JObj(members \o <<M("exe", JStr("/tmp/x")), M("euid", JStr("0")),
                          M("host", JStr("debian")), M("text", JStr("t"))>>),
         "", NoJSON, "wire")
BlankAlertBodies ==
    {BlankAlertBody("{alert:,...}", <<M("alert", JStr(""))>>),
     BlankAlertBody("{alert:  ,...}", <<M("alert", JStr("  "))>>),
     BlankAlertBody("{alert:null,...}", <<M("alert", JNull)>>),
     BlankAlertBody("{...}", <<>>)}

\* JSON texts that are no object, alone and in the payload field of a form.
BodyNull == Body("null", TRUE, JNull, "", NoJSON, "canon")
BodyArray == Body("[1]", TRUE, JArr(<<JNum("1")>>), "", NoJSON, "wire")
BodyNumber == Body("5", TRUE, JNum("5"), "", NoJSON, "canon")
BodyString == Body("\"x\"", TRUE, JStr("x"), "", NoJSON, "canon")
BodyFormNull == Body("payload=null", TRUE, NoJSON, "null", JNull, "canon")
BodyFormArray == Body("payload=[1]", TRUE, NoJSON, "[1]", JArr(<<JNum("1")>>), "wire")

\* Records that say "unparsed" of themselves.
BodyCollectorUnparsed ==
    Body("{alert:unparsed}", TRUE, JObj(<<M("alert", JStr("unparsed"))>>), "", NoJSON, "wire")
BodyGenericUnparsed ==
    Body("{alert_type:unparsed}", TRUE, JObj(<<M("alert_type", JStr("unparsed"))>>),
         "", NoJSON, "wire")

\* Generic bodies whose result object spells the candidate keys of host in
\* other letter cases.
ResultBody(name, members) ==
    Body(name, TRUE, JObj(<<M("result", JObj(members))>>), "", NoJSON, "wire")
BodyFoldFirst ==
    ResultBody("{result:{HOST:a,hostname:b}}",
               <<M("HOST", JStr("a")), M("hostname", JStr("b"))>>)
BodyFoldOnly ==
    ResultBody("{result:{HostName:c}}", <<M("HostName", JStr("c"))>>)
BodyExactFirst ==
    ResultBody("{result:{hostname:b,host:a}}",
               <<M("hostname", JStr("b")), M("host", JStr("a"))>>)
BodyExactEmpty ==
    ResultBody("{result:{host:null,computer:d}}",
               <<M("host", JNull), M("computer", JStr("d"))>>)

\* Two keys of the result object that differ only in letter case, neither of
\* them a candidate key verbatim.
BodyFoldTwo ==
    ResultBody("{result:{Host:a,HOST:b}}", <<M("Host", JStr("a")), M("HOST", JStr("b"))>>)

\* The bodies that the requests of SpecIngest carry.
IngestBodies ==
    SeverityBodies \cup TitleBodies \cup BlankAlertBodies
    \cup {BodyCollector, BodyGeneric, BodyForm, BodyText, BodyBinary, BodyEmpty,
          BodyNumeric, BodyNull, BodyArray, BodyNumber, BodyString, BodyFormNull,
          BodyFormArray, BodyCollectorUnparsed, BodyGenericUnparsed,
          BodyFoldFirst, BodyFoldOnly, BodyExactFirst, BodyExactEmpty, BodyFoldTwo}

(***************************************************************************)
(* Alert.Raw, a json.RawMessage: nil, or a JSON text in a layout.          *)
(***************************************************************************)
RawNil == [text |-> "", layout |-> "nil"]
RawMessage(text, layout) == [text |-> text, layout |-> layout]

(***************************************************************************)
(* The Alert struct (ReceivedAt, a wall-clock stamp no handler reads back, *)
(* is left out) and the CollectorAlert struct.                             *)
(***************************************************************************)
ZeroAlert ==
    [ID |-> 0, Title |-> "", Host |-> "", Source |-> "", SrcIP |-> "",
     SearchName |-> "", AlertType |-> "", Severity |-> "",
     Exe |-> "", Comm |-> "", UID |-> "", EUID |-> "", AUID |-> "", PID |-> "",
     PPID |-> "", TTY |-> "", Key |-> "", Audit |-> "", Text |-> "", RawEv |-> "",
     Raw |-> RawNil, RawText |-> ""]

ZeroCollector ==
    [Alert |-> "", Host |-> "", Exe |-> "", Comm |-> "", UID |-> "", EUID |-> "",
     AUID |-> "", PID |-> "", PPID |-> "", TTY |-> "", Key |-> "", Audit |-> "",
     Text |-> "", Raw |-> ""]

\* The json tags of CollectorAlert.
CollectorTags ==
    {"alert", "host", "exe", "comm", "uid", "euid", "auid", "pid", "ppid", "tty",
     "key", "audit", "text", "raw"}

\* encoding/json on a string field: the last member whose key is the tag (in
\* any letter case) and whose value is a JSON string; a null leaves the field.
DecodeString(o, tag) ==
    LET hits == {i \in 1..Len(o) : EqualFold(o[i].k, tag) /\ o[i].v.t = "string"}
    IN  IF hits = {} THEN "" ELSE o[Max(hits)].v.s

\* A variant of DecodeTypeError that lets a JSON number into a string field.
DecodeTypeErrorButNumbers(o) ==
    \E i \in 1..Len(o) : \E tag \in CollectorTags :
        EqualFold(o[i].k, tag) /\ o[i].v.t \notin {"string", "null", "number"}

\* encoding/json reports an UnmarshalTypeError when a member of a string
\* field is a number, a boolean, an object or an array.
DecodeTypeError(o) ==
    \E i \in 1..Len(o) : \E tag \in CollectorTags :
        EqualFold(o[i].k, tag) /\ o[i].v.t \notin {"string", "null"}

\* A variant of tryDecodeCollector that tests the alert field without
\* trimming it.
tryDecodeCollectorNoTrim(rawBody) ==
    LET j == rawBody.json
        failed == [a |-> ZeroCollector, ok |-> FALSE, err |-> TRUE]
        nomatch == [a |-> ZeroCollector, ok |-> FALSE, err |-> FALSE]
        a == [Alert |-> DecodeString(j.o, "alert"), Host |-> DecodeString(j.o, "host"),
              Exe |-> DecodeString(j.o, "exe"), Comm |-> DecodeString(j.o, "comm"),
              UID |-> DecodeString(j.o, "uid"), EUID |-> DecodeString(j.o, "euid"),
              AUID |-> DecodeString(j.o, "auid"), PID |-> DecodeString(j.o, "pid"),
              PPID |-> DecodeString(j.o, "ppid"), TTY |-> DecodeString(j.o, "tty"),
              Key |-> DecodeString(j.o, "key"), Audit |-> DecodeString(j.o, "audit"),
              Text |-> DecodeString(j.o, "text"), Raw |-> DecodeString(j.o, "raw")]
    IN  IF j.t = "invalid" THEN failed
        ELSE IF j.t = "null" THEN nomatch
        ELSE IF j.t # "object" THEN failed
        ELSE IF DecodeTypeError(j.o) THEN failed
        ELSE IF a.Alert = "" THEN nomatch
        ELSE [a |-> a, ok |-> TRUE, err |-> FALSE]

\* tryDecodeCollector: [a, ok, err].
tryDecodeCollector(rawBody) ==
    LET j == rawBody.json
        failed == [a |-> ZeroCollector, ok |-> FALSE, err |-> TRUE]
        nomatch == [a |-> ZeroCollector, ok |-> FALSE, err |-> FALSE]
        a == [Alert |-> DecodeString(j.o, "alert"), Host |-> DecodeString(j.o, "host"),
              Exe |-> DecodeString(j.o, "exe"), Comm |-> DecodeString(j.o, "comm"),
              UID |-> DecodeString(j.o, "uid"), EUID |-> DecodeString(j.o, "euid"),
              AUID |-> DecodeString(j.o, "auid"), PID |-> DecodeString(j.o, "pid"),
              PPID |-> DecodeString(j.o, "ppid"), TTY |-> DecodeString(j.o, "tty"),
              Key |-> DecodeString(j.o, "key"), Audit |-> DecodeString(j.o, "audit"),
              Text |-> DecodeString(j.o, "text"), Raw |-> DecodeString(j.o, "raw")]
    IN  IF j.t = "invalid" THEN failed
        ELSE IF j.t = "null" THEN nomatch
        ELSE IF j.t # "object" THEN failed
        ELSE IF DecodeTypeError(j.o) THEN failed
        ELSE IF TrimSpace(a.Alert) = "" THEN nomatch
        ELSE [a |-> a, ok |-> TRUE, err |-> FALSE]

\* A variant of severityFromCollector that asks whether there is an exe
\* before it looks at the allow-list.
severityPresenceFirst(a) ==
    LET exe == TrimSpace(a.Exe)
        euid == TrimSpace(a.EUID)
    IN  IF euid = "0" /\ (HasPrefix(exe, "/tmp/") \/ HasPrefix(exe, "/dev/shm/")
                          \/ HasPrefix(exe, "/var/tmp/"))
        THEN "HIGH"
        ELSE IF exe # "" THEN "MED"
        ELSE "LOW"

severityFromCollector(a) ==
    LET exe == TrimSpace(a.Exe)
        euid == TrimSpace(a.EUID)
    IN  IF euid = "0" /\ (HasPrefix(exe, "/tmp/") \/ HasPrefix(exe, "/dev/shm/")
                          \/ HasPrefix(exe, "/var/tmp/"))
        THEN "HIGH"
        ELSE IF exe # ""
        THEN IF \E p \in {"/usr/bin/", "/bin/", "/usr/sbin/", "/sbin/"} : HasPrefix(exe, p)
             THEN "LOW" ELSE "MED"
        ELSE "LOW"

extractQuotedKV(raw0, key) ==
    LET raw == TrimSpace(raw0)
        pat == key \o "=\""
        i == Index(raw, pat)
        start == i + Len(pat)
        rest == SubSeq(raw, start + 1, Len(raw))
        j == Index(rest, "\"")
    IN  IF raw = "" \/ key = "" THEN ""
        ELSE IF i < 0 THEN ""
        ELSE IF j < 0 THEN ""
        ELSE SubSeq(raw, start + 1, start + j)

\* A variant of collectorTitle that prefers the structured auid to the one
\* quoted in the raw audit text.
collectorTitleAuidFirst(a) ==
    LET v == extractQuotedKV(a.Raw, "AUID")
        actor0 == IF TrimSpace(a.AUID) # "" THEN TrimSpace(a.AUID) ELSE v
        actor == IF actor0 = "" THEN "unknown user" ELSE actor0
        acting == IF TrimSpace(a.EUID) = "0" THEN ", acting as root" ELSE ""
        verb == IF Contains(a.Raw, "success=yes") THEN "successfully executed" ELSE "executed"
        exe0 == TrimSpace(a.Exe)
        exe == IF exe0 = "" THEN "(unknown exe)" ELSE exe0
    IN  actor \o acting \o ", " \o verb \o " " \o exe

collectorTitle(a) ==
    LET v == extractQuotedKV(a.Raw, "AUID")
        actor0 == IF v # "" THEN v ELSE TrimSpace(a.AUID)
        actor == IF actor0 = "" THEN "unknown user" ELSE actor0
        acting == IF TrimSpace(a.EUID) = "0" THEN ", acting as root" ELSE ""
        verb == IF Contains(a.Raw, "success=yes") THEN "successfully executed" ELSE "executed"
        exe0 == TrimSpace(a.Exe)
        exe == IF exe0 = "" THEN "(unknown exe)" ELSE exe0
    IN  actor \o acting \o ", " \o verb \o " " \o exe

\* A variant of decodePayloadBytes that reports no error for a body it cannot
\* decode and hands on an empty payload.
decodePayloadLenient(rawBody) ==
    IF Len(rawBody.bytes) > 0 /\ rawBody.json.t \in {"object", "null"}
    THEN [payload |-> ToMap(rawBody.json.o),
          rawJSON |-> RawMessage(rawBody.bytes, rawBody.layout), err |-> FALSE]
    ELSE IF rawBody.payloadText # "" /\ rawBody.payload.t \in {"object", "null"}
    THEN [payload |-> ToMap(rawBody.payload.o),
          rawJSON |-> RawMessage(rawBody.payloadText, rawBody.layout), err |-> FALSE]
    ELSE [payload |-> EmptyMap, rawJSON |-> RawNil, err |-> FALSE]

\* decodePayloadBytes: [payload, rawJSON, err].  json.Unmarshal into a map
\* accepts a JSON object and the JSON null (the map stays nil).
decodePayloadBytes(rawBody) ==
    IF Len(rawBody.bytes) > 0 /\ rawBody.json.t \in {"object", "null"}
    THEN [payload |-> ToMap(rawBody.json.o),
          rawJSON |-> RawMessage(rawBody.bytes, rawBody.layout), err |-> FALSE]
    ELSE IF rawBody.payloadText # "" /\ rawBody.payload.t \in {"object", "null"}
    THEN [payload |-> ToMap(rawBody.payload.o),
          rawJSON |-> RawMessage(rawBody.payloadText, rawBody.layout), err |-> FALSE]
    ELSE [payload |-> EmptyMap, rawJSON |-> RawNil, err |-> TRUE]

\* extractResult.  Its second case, a result of type map[string]json.RawMessage,
\* is a type json.Unmarshal never builds.
extractResult(payload) ==
    IF "result" \in DOMAIN payload /\ payload["result"].t = "object"
    THEN ToMap(payload["result"].o)
    ELSE IF /\ "results" \in DOMAIN payload
            /\ payload["results"].t = "array"
            /\ Len(payload["results"].o) > 0
            /\ payload["results"].o[1].v.t = "object"
    THEN ToMap(payload["results"].o[1].v.o)
    ELSE EmptyMap

\* strconv.FormatFloat(t, 'f', -1, 64) of the float64 a JSON number decodes to.
FormatFloat(lit) ==
    CASE lit = "1.0" -> "1"
      [] lit = "1e2" -> "100"
      [] OTHER -> lit

stringify(v) ==
    IF v.t = "string" THEN v.s
    ELSE IF v.t = "number" THEN FormatFloat(v.s)
    ELSE ""

\* A variant of pickFrom that only knows the keys as the caller spells them.
RECURSIVE pickFromExactOnly(_, _, _)
pickFromExactOnly(src, keys, i) ==
    IF i > Len(keys) THEN {""}
    ELSE LET k == keys[i]
             exact == IF k \in DOMAIN src THEN stringify(src[k]) ELSE ""
         IN  IF exact # "" THEN {exact}
             ELSE pickFromExactOnly(src, keys, i + 1)

\* pickString from keys[i] on.  Go ranges over a map in an order that changes
\* from run to run, so the value is one of a set: the values the loop over
\* src can return first.
RECURSIVE pickFrom(_, _, _)
pickFrom(src, keys, i) ==
    IF i > Len(keys) THEN {""}
    ELSE LET k == keys[i]
             exact == IF k \in DOMAIN src THEN stringify(src[k]) ELSE ""
             folded == {stringify(src[sk]) : sk \in {x \in DOMAIN src : EqualFold(x, k)}}
                       \ {""}
         IN  IF exact # "" THEN {exact}
             ELSE IF folded # {} THEN folded
             ELSE pickFrom(src, keys, i + 1)

pickString(src, keys) == pickFrom(src, keys, 1)

HostKeys == <<"host", "hostname", "computer">>
SrcKeys == <<"src", "src_ip", "source_ip", "srcip", "clientip", "ip">>
TypeKeys == <<"alert_type", "type", "signature">>
SearchKeys == <<"search_name", "search", "savedsearch_name">>

\* extractAlert: the Alerts it can return.
extractAlert(payload, raw) ==
    LET result == extractResult(payload)
    IN  {[ZeroAlert EXCEPT
            !.Host = host, !.Source = source,
            !.SrcIP = IF src1 = "" THEN src2 ELSE src1,
            !.SearchName = searchName,
            !.AlertType = IF at1 # "" THEN at1 ELSE IF at2 # "" THEN at2 ELSE at3,
            !.Raw = raw] :
          host \in pickString(result, HostKeys),
          source \in pickString(result, <<"source">>),
          src1 \in pickString(result, SrcKeys),
          src2 \in pickString(payload, SrcKeys),
          at1 \in pickString(result, TypeKeys),
          at2 \in pickString(payload, SearchKeys),
          at3 \in pickString(result, <<"sourcetype">>),
          searchName \in pickString(payload, SearchKeys)}

\* net.SplitHostPort of an IPv4 "host:port".
SplitHostPort(addr) ==
    LET i == Index(addr, ":")
    IN  IF i < 0 THEN "" ELSE SubSeq(addr, 1, i)

\* Request.RemoteAddr of the senders.
RemoteAddr == "10.0.0.5:40000"

\* webhookHandler, lines 206-256: the records the handler can build from a
\* body that was read, each with whether parseErr is set.
\* A variant of buildAlert whose unparsed record does not keep the body.
buildAlertDropsBody(rawBody, remoteAddr) ==
    LET c == tryDecodeCollector(rawBody)
        a == c.a
        d == decodePayloadBytes(rawBody)
        built ==
            IF ~c.err /\ c.ok
            THEN {[alert |-> [ZeroAlert EXCEPT
                      !.Title = collectorTitle(a), !.Host = a.Host,
                      !.AlertType = a.Alert, !.Severity = severityFromCollector(a),
                      !.Exe = a.Exe, !.Comm = a.Comm, !.UID = a.UID, !.EUID = a.EUID,
                      !.AUID = a.AUID, !.PID = a.PID, !.PPID = a.PPID, !.TTY = a.TTY,
                      !.Key = a.Key, !.Audit = a.Audit, !.Text = a.Text,
                      !.RawEv = a.Raw, !.Source = a.Exe,
                      !.Raw = RawMessage(rawBody.bytes, rawBody.layout)],
                   parseErr |-> FALSE]}
            ELSE IF d.err
            THEN {[alert |-> [ZeroAlert EXCEPT !.AlertType = "unparsed"],
                   parseErr |-> TRUE]}
            ELSE {[alert |-> x, parseErr |-> FALSE] : x \in extractAlert(d.payload, d.rawJSON)}
    IN  {[b EXCEPT !.alert.SrcIP =
              IF b.alert.SrcIP = "" THEN SplitHostPort(remoteAddr) ELSE b.alert.SrcIP] :
         b \in built}

buildAlert(rawBody, remoteAddr) ==
    LET c == tryDecodeCollector(rawBody)
        a == c.a
        d == decodePayloadBytes(rawBody)
        built ==
            IF ~c.err /\ c.ok
            THEN {[alert |-> [ZeroAlert EXCEPT
                      !.Title = collectorTitle(a), !.Host = a.Host,
                      !.AlertType = a.Alert, !.Severity = severityFromCollector(a),
                      !.Exe = a.Exe, !.Comm = a.Comm, !.UID = a.UID, !.EUID = a.EUID,
                      !.AUID = a.AUID, !.PID = a.PID, !.PPID = a.PPID, !.TTY = a.TTY,
                      !.Key = a.Key, !.Audit = a.Audit, !.Text = a.Text,
                      !.RawEv = a.Raw, !.Source = a.Exe,
                      !.Raw = RawMessage(rawBody.bytes, rawBody.layout)],
                   parseErr |-> FALSE]}
            ELSE IF d.err
            THEN {[alert |-> [ZeroAlert EXCEPT !.AlertType = "unparsed",
                                               !.RawText = rawBody.bytes],
                   parseErr |-> TRUE]}
            ELSE {[alert |-> x, parseErr |-> FALSE] : x \in extractAlert(d.payload, d.rawJSON)}
    IN  {[b EXCEPT !.alert.SrcIP =
              IF b.alert.SrcIP = "" THEN SplitHostPort(remoteAddr) ELSE b.alert.SrcIP] :
         b \in built}

(***************************************************************************)
(* The snapshot file.  encoding/json rewrites what it stores: MarshalIndent *)
(* compacts and re-indents a RawMessage (a nil one becomes null), and       *)
(* coerces a string to valid UTF-8.                                         *)
(***************************************************************************)
Reindent(raw) ==
    IF raw.layout = "nil" THEN RawMessage("null", "canon")
    ELSE [raw EXCEPT !.layout = "canon"]

\* Invalid bytes become U+FFFD; of the bodies only BodyBinary has any.
ToValidUTF8(str) == IF str = BodyBinary.bytes THEN "<fffd><fffd>" ELSE str

\* One Alert through json.Marshal and back through json.Unmarshal.
EncodeAlert(a) == [a EXCEPT !.Raw = Reindent(a.Raw), !.RawText = ToValidUTF8(a.RawText)]

EncodeAlerts(as) == [i \in 1..Len(as) |-> EncodeAlert(as[i])]

\* What a file holds: nothing (the file does not exist), bytes that are not
\* JSON (a write that failed after truncating it), or a snapshot.
NoFile == [state |-> "absent", alerts |-> <<>>, next_id |-> 0]
Truncated == [state |-> "corrupt", alerts |-> <<>>, next_id |-> 0]

\* json.MarshalIndent(snapshot{Alerts: as, NextID: n}, "", "  ")
MarshalIndent(as, n) == [state |-> "ok", alerts |-> EncodeAlerts(as), next_id |-> n]

HistFile == "alerts_history.json"
\* alerts_history_<ts>.json, ts the second the rotation reads off the clock.
ArchiveFile(ts) == "alerts_history_" \o ToString(ts) \o ".json"
Files == {HistFile} \cup {ArchiveFile(ts) : ts \in 0..MaxClock}

(***************************************************************************)
(* State.                                                                  *)
(***************************************************************************)
VARIABLES
    alerts,     \* main.go:71, the in-memory sequence
    nextID,     \* main.go:73
    dataFile,   \* main.go:75, the active backing file
    alertsMu,   \* main.go:72: "free", or the goroutine that holds the mutex
    disk,       \* the working directory: file name -> content
    now,        \* the wall clock, in seconds
    pc,         \* each goroutine's position in its handler
    req,        \* each goroutine's locals
    resp,       \* the last response each goroutine wrote
    served,     \* requests accepted so far
    failures,   \* disk operations that failed so far
    issued      \* history: the highest id assigned since the backing file was set

vars == <<alerts, nextID, dataFile, alertsMu, disk, now, pc, req, resp, served,
          failures, issued>>

\* A handler's locals: rawBody, alert and parseErr of webhookHandler, newFile
\* and data of rotateHistory, snap of loadHistory (data and snap share a slot).
NoReq ==
    [rawBody |-> BodyEmpty, alert |-> ZeroAlert, parseErr |-> FALSE, newFile |-> "",
     snap |-> NoFile]

\* A response: the path that was requested, the status code, the JSON fields
\* that the handler sets (status, ok, id, parse_error, count, filename; for
\* http.Error, status is the message) and, for the list endpoints, the
\* records it rendered.
NoResp ==
    [path |-> "", code |-> 0, status |-> "", ok |-> FALSE, id |-> 0,
     parse_error |-> FALSE, count |-> 0, filename |-> "", alerts |-> <<>>]

HttpError(path, code, msg) == [NoResp EXCEPT !.path = path, !.code = code, !.status = msg]

(***************************************************************************)
(* Init: main has run loadHistory.  The working directory holds no history *)
(* (a first run), or the file that an earlier run left after n appends:    *)
(* its last min(n, maxStore) records and next_id n + 1.                    *)
(***************************************************************************)
PriorAppends == {0, 1}

\* The earlier run was sent BodyText.
PriorAlert(id) ==
    EncodeAlert([(CHOOSE b \in buildAlert(BodyText, RemoteAddr) : TRUE).alert
                    EXCEPT !.ID = id])

PriorAlerts(n) ==
    LET k == IF n < maxStore THEN n ELSE maxStore
    IN  [i \in 1..k |-> PriorAlert(n - k + i)]

InitWith(n) ==
    /\ alerts = PriorAlerts(n)
    /\ nextID = n + 1
    /\ dataFile = HistFile
    /\ alertsMu = "free"
    /\ disk = [f \in Files |->
                 IF f = HistFile /\ n > 0 THEN MarshalIndent(PriorAlerts(n), n + 1)
                 ELSE NoFile]
    /\ now = 0
    /\ pc = [p \in Procs |-> "idle"]
    /\ req = [p \in Procs |-> NoReq]
    /\ resp = [p \in Procs |-> NoResp]
    /\ served = 0
    /\ failures = 0
    /\ issued = n

Init == \E n \in PriorAppends : InitWith(n)

\* The earlier run filled the window.
InitFull == InitWith(maxStore)

(***************************************************************************)
(* The disk.  os.WriteFile opens with O_CREATE|O_TRUNC and writes: it      *)
(* succeeds, fails before the file is touched, or fails after truncating.  *)
(***************************************************************************)
WriteOutcomes ==
    IF failures < MaxDiskFailures THEN {"ok", "failed", "truncated"} ELSE {"ok"}

WriteFile(d, f, data, outcome) ==
    [d EXCEPT ![f] = IF outcome = "ok" THEN data
                     ELSE IF outcome = "truncated" THEN Truncated
                     ELSE @]

Failed(outcome) == IF outcome = "ok" THEN failures ELSE failures + 1

\* saveHistoryLocked, on the values the globals hold when it is called.
saveHistoryLocked(d, as, n, f, outcome) == WriteFile(d, f, MarshalIndent(as, n), outcome)

(***************************************************************************)
(* Requests.  A goroutine that is idle accepts the next request; limit     *)
(* bounds how many are accepted in a behaviour.                            *)
(***************************************************************************)
Accept(p, limit) ==
    /\ pc[p] = "idle"
    /\ served < limit
    /\ served' = served + 1

Goto(p, label) == pc' = [pc EXCEPT ![p] = label]

\* The method each handler accepts.
Allowed(path) ==
    IF path \in {"/api/alerts", "/alerts"} THEN "GET" ELSE "POST"

Paths == {"/webhook", "/api/alerts", "/alerts", "/api/history/reload", "/api/history/rotate"}
Methods == {"GET", "POST"}

\* A variant of MethodNotAllowed that empties the store as it answers.
MethodNotAllowedClears(p, path, method, limit) ==
    /\ Accept(p, limit)
    /\ method # Allowed(path)
    /\ resp' = [resp EXCEPT ![p] = HttpError(path, 405, "method not allowed")]
    /\ alerts' = <<>>
    /\ UNCHANGED <<nextID, dataFile, alertsMu, disk, now, pc, req, failures, issued>>

\* The method check that opens each of the five handlers.
MethodNotAllowed(p, path, method, limit) ==
    /\ Accept(p, limit)
    /\ method # Allowed(path)
    /\ resp' = [resp EXCEPT ![p] = HttpError(path, 405, "method not allowed")]
    /\ UNCHANGED <<alerts, nextID, dataFile, alertsMu, disk, now, pc, req, failures, issued>>

\* webhookHandler, lines 199-204: io.ReadAll fails.
WebhookReadError(p, limit) ==
    /\ Accept(p, limit)
    /\ resp' = [resp EXCEPT ![p] = HttpError("/webhook", 400, "failed to read body")]
    /\ UNCHANGED <<alerts, nextID, dataFile, alertsMu, disk, now, pc, req, failures, issued>>

\* webhookHandler, lines 206-259: the record is built and the mutex taken.
WebhookBegin(p, rawBody, limit) ==
    /\ Accept(p, limit)
    /\ alertsMu = "free"
    /\ alertsMu' = p
    /\ \E b \in buildAlert(rawBody, RemoteAddr) :
          req' = [req EXCEPT ![p] = [NoReq EXCEPT !.rawBody = rawBody, !.alert = b.alert,
                                                  !.parseErr = b.parseErr]]
    /\ resp' = [resp EXCEPT ![p] = NoResp]
    /\ Goto(p, "wh_evict")
    /\ UNCHANGED <<alerts, nextID, dataFile, disk, now, failures, issued>>

\* A variant of WebhookEvict that drops the oldest record one append late.
WebhookEvictLate(p) ==
    /\ pc[p] = "wh_evict"
    /\ alerts' = IF Len(alerts) > maxStore THEN Tail(alerts) ELSE alerts
    /\ Goto(p, "wh_assign")
    /\ UNCHANGED <<nextID, dataFile, alertsMu, disk, now, req, resp, served, failures, issued>>

\* lines 261-264
WebhookEvict(p) ==
    /\ pc[p] = "wh_evict"
    /\ alerts' = IF Len(alerts) >= maxStore THEN Tail(alerts) ELSE alerts
    /\ Goto(p, "wh_assign")
    /\ UNCHANGED <<nextID, dataFile, alertsMu, disk, now, req, resp, served, failures, issued>>

\* lines 265-266
WebhookAssign(p) ==
    /\ pc[p] = "wh_assign"
    /\ req' = [req EXCEPT ![p].alert.ID = nextID]
    /\ nextID' = nextID + 1
    /\ issued' = IF nextID > issued THEN nextID ELSE issued
    /\ Goto(p, "wh_append")
    /\ UNCHANGED <<alerts, dataFile, alertsMu, disk, now, resp, served, failures>>

\* A variant of WebhookAppend that puts the new record in front.
WebhookAppendFront(p) ==
    /\ pc[p] = "wh_append"
    /\ alerts' = <<req[p].alert>> \o alerts
    /\ Goto(p, "wh_save")
    /\ UNCHANGED <<nextID, dataFile, alertsMu, disk, now, req, resp, served, failures, issued>>

\* line 267
WebhookAppend(p) ==
    /\ pc[p] = "wh_append"
    /\ alerts' = Append(alerts, req[p].alert)
    /\ Goto(p, "wh_save")
    /\ UNCHANGED <<nextID, dataFile, alertsMu, disk, now, req, resp, served, failures, issued>>

\* A variant of WebhookSave that leaves the backing file as it is.
WebhookSaveNoWrite(p) ==
    /\ pc[p] = "wh_save"
    /\ resp' = [resp EXCEPT ![p] =
                  [NoResp EXCEPT !.path = "/webhook", !.code = 200, !.ok = TRUE,
                                 !.status = "stored", !.id = req[p].alert.ID,
                                 !.parse_error = req[p].parseErr]]
    /\ req' = [req EXCEPT ![p] = NoReq]
    /\ alertsMu' = "free"
    /\ Goto(p, "idle")
    /\ UNCHANGED <<alerts, nextID, dataFile, disk, now, served, failures, issued>>

\* A variant of WebhookSave that takes the record back out and answers 500
\* when the write fails.
WebhookSaveRollback(p) ==
    /\ pc[p] = "wh_save"
    /\ \E outcome \in WriteOutcomes :
          /\ disk' = saveHistoryLocked(disk, alerts, nextID, dataFile, outcome)
          /\ failures' = Failed(outcome)
          /\ IF outcome = "ok"
             THEN /\ resp' = [resp EXCEPT ![p] =
                                [NoResp EXCEPT !.path = "/webhook", !.code = 200, !.ok = TRUE,
                                               !.status = "stored", !.id = req[p].alert.ID,
                                               !.parse_error = req[p].parseErr]]
                  /\ UNCHANGED <<alerts, nextID>>
             ELSE /\ resp' = [resp EXCEPT ![p] = HttpError("/webhook", 500, "failed to save")]
                  /\ alerts' = SubSeq(alerts, 1, Len(alerts) - 1)
                  /\ nextID' = nextID - 1
    /\ req' = [req EXCEPT ![p] = NoReq]
    /\ alertsMu' = "free"
    /\ Goto(p, "idle")
    /\ UNCHANGED <<dataFile, now, served, issued>>

\* lines 268-281: the snapshot is written, its error dropped, the response
\* sent and the mutex released.
WebhookSave(p) ==
    /\ pc[p] = "wh_save"
    /\ \E outcome \in WriteOutcomes :
          /\ disk' = saveHistoryLocked(disk, alerts, nextID, dataFile, outcome)
          /\ failures' = Failed(outcome)
    /\ resp' = [resp EXCEPT ![p] =
                  [NoResp EXCEPT !.path = "/webhook", !.code = 200, !.ok = TRUE,
                                 !.status = "stored", !.id = req[p].alert.ID,
                                 !.parse_error = req[p].parseErr]]
    /\ req' = [req EXCEPT ![p] = NoReq]
    /\ alertsMu' = "free"
    /\ Goto(p, "idle")
    /\ UNCHANGED <<alerts, nextID, dataFile, now, served, issued>>

(***************************************************************************)
(* rotateHistory                                                           *)
(***************************************************************************)
\* A variant of RotateBegin that clears memory before it writes the archive,
\* so that a failed write leaves the store empty.
RotateBeginClearFirst(p, limit) ==
    /\ Accept(p, limit)
    /\ alertsMu = "free"
    /\ \E ts \in now..MaxClock : \E outcome \in WriteOutcomes :
          /\ now' = ts
          /\ disk' = WriteFile(disk, ArchiveFile(ts), MarshalIndent(alerts, nextID), outcome)
          /\ failures' = Failed(outcome)
          /\ IF outcome = "ok"
             THEN /\ alertsMu' = p
                  /\ req' = [req EXCEPT ![p] =
                               [NoReq EXCEPT !.newFile = ArchiveFile(ts),
                                             !.snap = MarshalIndent(alerts, nextID)]]
                  /\ resp' = [resp EXCEPT ![p] = NoResp]
                  /\ Goto(p, "rot_clear")
                  /\ UNCHANGED <<alerts, nextID>>
             ELSE /\ resp' = [resp EXCEPT ![p] =
                                HttpError("/api/history/rotate", 500, "failed to rotate")]
                  /\ alerts' = <<>>
                  /\ nextID' = 1
                  /\ UNCHANGED <<alertsMu, req, pc>>
    /\ UNCHANGED <<dataFile, issued>>

\* lines 143-159: the mutex is taken, the clock read and the archive written;
\* if the write fails the handler answers 500 and its deferred Unlock runs.
RotateBegin(p, limit) ==
    /\ Accept(p, limit)
    /\ alertsMu = "free"
    /\ \E ts \in now..MaxClock : \E outcome \in WriteOutcomes :
          /\ now' = ts
          /\ disk' = WriteFile(disk, ArchiveFile(ts), MarshalIndent(alerts, nextID), outcome)
          /\ failures' = Failed(outcome)
          /\ IF outcome = "ok"
             THEN /\ alertsMu' = p
                  /\ req' = [req EXCEPT ![p] =
                               [NoReq EXCEPT !.newFile = ArchiveFile(ts),
                                             !.snap = MarshalIndent(alerts, nextID)]]
                  /\ resp' = [resp EXCEPT ![p] = NoResp]
                  /\ Goto(p, "rot_clear")
             ELSE /\ resp' = [resp EXCEPT ![p] =
                                HttpError("/api/history/rotate", 500, "failed to rotate")]
                  /\ UNCHANGED <<alertsMu, req, pc>>
    /\ UNCHANGED <<alerts, nextID, dataFile, issued>>

\* line 162
RotateClear(p) ==
    /\ pc[p] = "rot_clear"
    /\ alerts' = <<>>
    /\ Goto(p, "rot_reset")
    /\ UNCHANGED <<nextID, dataFile, alertsMu, disk, now, req, resp, served, failures, issued>>

\* line 163
RotateReset(p) ==
    /\ pc[p] = "rot_reset"
    /\ nextID' = 1
    /\ Goto(p, "rot_switch")
    /\ UNCHANGED <<alerts, dataFile, alertsMu, disk, now, req, resp, served, failures, issued>>

\* lines 164-172: the backing file is repointed and saved, the response sent
\* and the mutex released.
RotateSwitch(p) ==
    /\ pc[p] = "rot_switch"
    /\ dataFile' = req[p].newFile
    /\ \E outcome \in WriteOutcomes :
          /\ disk' = saveHistoryLocked(disk, alerts, nextID, req[p].newFile, outcome)
          /\ failures' = Failed(outcome)
    /\ resp' = [resp EXCEPT ![p] =
                  [NoResp EXCEPT !.path = "/api/history/rotate", !.code = 200,
                                 !.status = "rotated", !.filename = req[p].newFile]]
    /\ req' = [req EXCEPT ![p] = NoReq]
    /\ issued' = 0
    /\ alertsMu' = "free"
    /\ Goto(p, "idle")
    /\ UNCHANGED <<alerts, nextID, now, served>>

(***************************************************************************)
(* reloadHistory and loadHistory                                           *)
(***************************************************************************)
\* os.ReadFile: the file's content, or an error other than "not exist".
ReadOutcomes == IF failures < MaxDiskFailures THEN {"ok", "failed"} ELSE {"ok"}

\* loadHistory, lines 524-537: the mutex is taken and the file read and
\* decoded.  A file that does not exist returns nil, an error returns it
\* (reloadHistory then answers 500); either way the deferred Unlock runs.
LoadBegin(p, limit) ==
    /\ Accept(p, limit)
    /\ alertsMu = "free"
    /\ \E outcome \in ReadOutcomes :
          /\ failures' = Failed(outcome)
          /\ IF outcome = "ok" /\ disk[dataFile].state = "absent"
             THEN /\ resp' = [resp EXCEPT ![p] = NoResp]
                  /\ Goto(p, "rl_count")
                  /\ UNCHANGED <<alertsMu, req>>
             ELSE IF outcome = "failed" \/ disk[dataFile].state = "corrupt"
             THEN /\ resp' = [resp EXCEPT ![p] =
                                HttpError("/api/history/reload", 500, "failed to reload")]
                  /\ UNCHANGED <<alertsMu, req, pc>>
             ELSE /\ alertsMu' = p
                  /\ req' = [req EXCEPT ![p] = [NoReq EXCEPT !.snap = disk[dataFile]]]
                  /\ resp' = [resp EXCEPT ![p] = NoResp]
                  /\ Goto(p, "ld_alerts")
    /\ UNCHANGED <<alerts, nextID, dataFile, disk, now, issued>>

\* A variant of LoadAlerts that keeps the records memory holds.
LoadAlertsStale(p) ==
    /\ pc[p] = "ld_alerts"
    /\ alerts' = alerts
    /\ Goto(p, "ld_next")
    /\ UNCHANGED <<nextID, dataFile, alertsMu, disk, now, req, resp, served, failures, issued>>

\* line 538
LoadAlerts(p) ==
    /\ pc[p] = "ld_alerts"
    /\ alerts' = req[p].snap.alerts
    /\ Goto(p, "ld_next")
    /\ UNCHANGED <<nextID, dataFile, alertsMu, disk, now, req, resp, served, failures, issued>>

\* lines 539-544, and the deferred Unlock.  req keeps the snapshot that was
\* loaded until the handler returns, as a record of what this reload read.
LoadNextID(p) ==
    /\ pc[p] = "ld_next"
    /\ nextID' = IF req[p].snap.next_id > 0 THEN req[p].snap.next_id ELSE Len(alerts) + 1
    /\ alertsMu' = "free"
    /\ Goto(p, "rl_count")
    /\ UNCHANGED <<alerts, dataFile, disk, now, req, resp, served, failures, issued>>

\* reloadHistory, lines 292-296: len(alerts) is read after loadHistory has
\* released the mutex.
ReloadCount(p) ==
    /\ pc[p] = "rl_count"
    /\ resp' = [resp EXCEPT ![p] =
                  [NoResp EXCEPT !.path = "/api/history/reload", !.code = 200,
                                 !.status = "reloaded", !.count = Len(alerts)]]
    /\ req' = [req EXCEPT ![p] = NoReq]
    /\ Goto(p, "idle")
    /\ UNCHANGED <<alerts, nextID, dataFile, alertsMu, disk, now, served, failures, issued>>

(***************************************************************************)
(* getAlerts and getAlertsText: Lock, render, Unlock.                      *)
(***************************************************************************)
Reverse(seq) == [i \in 1..Len(seq) |-> seq[Len(seq) + 1 - i]]

\* The body is the JSON encoding of the records.
getAlerts(p, limit) ==
    /\ Accept(p, limit)
    /\ alertsMu = "free"
    /\ resp' = [resp EXCEPT ![p] =
                  [NoResp EXCEPT !.path = "/api/alerts", !.code = 200,
                                 !.alerts = EncodeAlerts(alerts)]]
    /\ UNCHANGED <<alerts, nextID, dataFile, alertsMu, disk, now, pc, req, failures, issued>>

\* One line per record, the newest first (the layout of a line is left out).
getAlertsText(p, limit) ==
    /\ Accept(p, limit)
    /\ alertsMu = "free"
    /\ resp' = [resp EXCEPT ![p] =
                  [NoResp EXCEPT !.path = "/alerts", !.code = 200,
                                 !.alerts = Reverse(alerts)]]
    /\ UNCHANGED <<alerts, nextID, dataFile, alertsMu, disk, now, pc, req, failures, issued>>

(***************************************************************************)
(* The process is stopped, at any point of any handler, and started again. *)
(***************************************************************************)
\* main.go:70-76 and main, lines 81-86: the package variables take their
\* initial values (no records, next id 1, dataFile alerts_history.json) and
\* loadHistory reads that file; an error is logged and the server starts
\* empty.  The requests in flight are gone with the old process.
Restart ==
    /\ \E outcome \in ReadOutcomes :
          /\ failures' = Failed(outcome)
          /\ LET snap == disk[HistFile]
                 loaded == outcome = "ok" /\ snap.state = "ok"
             IN  /\ alerts' = IF loaded THEN snap.alerts ELSE <<>>
                 /\ nextID' = IF ~loaded THEN 1
                              ELSE IF snap.next_id > 0 THEN snap.next_id
                              ELSE Len(snap.alerts) + 1
    /\ dataFile' = HistFile
    /\ alertsMu' = "free"
    /\ pc' = [p \in Procs |-> "idle"]
    /\ req' = [p \in Procs |-> NoReq]
    /\ resp' = [p \in Procs |-> NoResp]
    /\ issued' = nextID' - 1
    /\ UNCHANGED <<disk, now, served>>

(***************************************************************************)
(* Specifications.                                                         *)
(***************************************************************************)
NextWith(limit) ==
    \E p \in Procs :
        \/ \E path \in Paths : \E method \in Methods :
              MethodNotAllowed(p, path, method, limit)
        \/ WebhookReadError(p, limit)
        \/ \E rawBody \in Bodies : WebhookBegin(p, rawBody, limit)
        \/ WebhookEvict(p)
        \/ WebhookAssign(p)
        \/ WebhookAppend(p)
        \/ WebhookSave(p)
        \/ RotateBegin(p, limit)
        \/ RotateClear(p)
        \/ RotateReset(p)
        \/ RotateSwitch(p)
        \/ LoadBegin(p, limit)
        \/ LoadAlerts(p)
        \/ LoadNextID(p)
        \/ ReloadCount(p)
        \/ getAlerts(p, limit)
        \/ getAlertsText(p, limit)

Next == NextWith(MaxRequests)

Spec == Init /\ [][Next]_vars

NextFull == NextWith(MaxFullRequests)

SpecFull == InitFull /\ [][NextFull]_vars

\* One sender posts MaxAppends bodies to a server that started with no
\* history; nothing else is requested.  The k-th body is fixed, so that
\* neighbouring records differ.
BodyCycle == <<BodyCollector, BodyForm, BodyBinary>>

NextAppend ==
    \/ WebhookBegin("p1", BodyCycle[(served % 3) + 1], MaxAppends)
    \/ WebhookEvict("p1")
    \/ WebhookAssign("p1")
    \/ WebhookAppend("p1")
    \/ WebhookSave("p1")

SpecAppend == InitWith(0) /\ [][NextAppend]_vars

\* The server of Spec, stopped and started again at any time.
NextRestart == NextWith(MaxRestartRequests) \/ Restart

SpecRestart == Init /\ [][NextRestart]_vars

\* One goroutine whose POST /webhook requests carry every kind of body.
NextIngest ==
    \/ \E rawBody \in IngestBodies : WebhookBegin("p1", rawBody, MaxIngestRequests)
    \/ WebhookEvict("p1")
    \/ WebhookAssign("p1")
    \/ WebhookAppend("p1")
    \/ WebhookSave("p1")

SpecIngest == InitWith(0) /\ [][NextIngest]_vars

(***************************************************************************)
(* Properties.                                                             *)
(***************************************************************************)

\* C1: from an empty store with next id 1, and with nothing but appends, once
\* N appends have completed the store holds exactly min(N, maxStore) records:
\* the most recent ones in the order they arrived, the record of the k-th
\* append carrying id k (no renumbering after an eviction), and the N-th
\* response carries id N.  Stated of SpecAppend, N sequential appends.
C1_RollingWindow ==
    pc["p1"] = "idle" =>
        LET N == served
            K == IF N < maxStore THEN N ELSE maxStore
            built == [j \in 1..3 |->
                        (CHOOSE b \in buildAlert(BodyCycle[j], RemoteAddr) : TRUE).alert]
        IN  /\ Len(alerts) = K
            /\ nextID = N + 1
            /\ \A i \in 1..K :
                  LET k == N - K + i
                  IN  alerts[i] = [built[((k - 1) % 3) + 1] EXCEPT !.ID = k]
            /\ N > 0 => resp["p1"].id = N

\* C1's case: more than maxStore appends have completed and the oldest
\* records are gone.
C1_Witness ==
    /\ pc["p1"] = "idle"
    /\ served > maxStore
    /\ Len(alerts) = maxStore
    /\ alerts[1].ID = served - maxStore + 1
    /\ alerts[1].ID > 1

\* C2: between two rotations an id is never assigned twice: the id that line
\* 265 assigns is greater than every id assigned before it on this backing
\* file (issued), whatever appends, evictions, reloads and failed or
\* successful writes came before.
C2_IdNeverReused ==
    [][\A p \in Procs : WebhookAssign(p) => nextID > issued]_vars

\* C3: a rotate leaves memory empty with next id 1, so that the append after
\* it stores exactly one record with id 1; and when the rotate returns, the
\* archive file it named holds every record that was in memory before it
\* (the snapshot of line 150).
C3_RotateArchives ==
    [][\A p \in Procs :
          /\ RotateSwitch(p) =>
                /\ alerts' = <<>>
                /\ nextID' = 1
                /\ disk'[resp'[p].filename].state = "ok"
                /\ disk'[resp'[p].filename].alerts = req[p].snap.alerts
          /\ (WebhookAppend(p) /\ alerts = <<>> /\ issued' = 1) =>
                /\ Len(alerts') = 1
                /\ alerts'[1].ID = 1
      ]_vars

C5_BoundedWindow ==
    [][/\ Len(alerts) <= maxStore
       /\ Len(alerts') <= maxStore
       /\ \A p \in Procs :
             /\ (WebhookEvict(p) /\ Len(alerts) >= maxStore) =>
                   /\ Len(alerts') = Len(alerts) - 1
                   /\ \A i \in 1..Len(alerts') : alerts'[i] = alerts[i + 1]
             /\ WebhookAppend(p) =>
                   /\ Len(alerts') = Len(alerts) + 1
                   /\ \A i \in 1..Len(alerts) : alerts'[i] = alerts[i]
                   /\ alerts'[Len(alerts')].ID = req[p].alert.ID
      ]_vars

\* C5's case: an append at capacity has dropped record 1 and added record
\* maxStore + 1.
C5_Witness ==
    /\ Len(alerts) = maxStore
    /\ alerts[1].ID = 2
    /\ alerts[maxStore].ID = maxStore + 1

\* C6: the store operations are mutually exclusive: no step of a handler that
\* reads or writes alerts or nextID (the list responses and the count of a
\* reload among them) is taken while another goroutine is partway through
\* its mutation of them.
C6_NoPartwayObservation ==
    [][\A p \in Procs :
          (\/ WebhookEvict(p) \/ WebhookAssign(p) \/ WebhookAppend(p) \/ WebhookSave(p)
           \/ RotateBegin(p, MaxRequests) \/ RotateClear(p) \/ RotateReset(p)
           \/ RotateSwitch(p)
           \/ LoadAlerts(p) \/ LoadNextID(p) \/ ReloadCount(p)
           \/ getAlerts(p, MaxRequests) \/ getAlertsText(p, MaxRequests))
          => \A q \in Procs \ {p} :
                pc[q] \notin {"wh_append", "rot_reset", "rot_switch", "ld_next"}
      ]_vars

\* C7: a rotate whose archive write fails answers 500 and leaves the
\* sequence, the next id and the backing file path as they were, with the
\* mutex released.
C7_FailedRotateKeepsState ==
    [][\A p \in Procs :
          (RotateBegin(p, MaxRequests) /\ failures' # failures) =>
              /\ resp'[p].code = 500
              /\ resp'[p].path = "/api/history/rotate"
              /\ alerts' = alerts
              /\ nextID' = nextID
              /\ dataFile' = dataFile
              /\ alertsMu' = "free"
              /\ pc'[p] = "idle"
      ]_vars

\* C7's case: a rotate has answered 500 and the records are still in memory.
C7_Witness ==
    /\ \E p \in Procs : resp[p].path = "/api/history/rotate" /\ resp[p].code = 500
    /\ failures = 1
    /\ alerts # <<>>
    /\ \A p \in Procs : pc[p] = "idle"

\* C8: when the write inside an append fails, the record stays in the
\* sequence with its id, the counter stays incremented and the response is
\* the success response with that id.
C8_FailedSaveKeepsAppend ==
    [][\A p \in Procs :
          (WebhookSave(p) /\ failures' # failures) =>
              /\ alerts' = alerts
              /\ alerts'[Len(alerts')] = req[p].alert
              /\ nextID' = nextID
              /\ nextID' = req[p].alert.ID + 1
              /\ resp'[p].code = 200
              /\ resp'[p].ok
              /\ resp'[p].status = "stored"
              /\ resp'[p].id = req[p].alert.ID
      ]_vars

\* C8's case: an append has answered "stored" although its write failed: the
\* backing file does not hold the record.
C8_Witness ==
    \E p \in Procs :
        /\ pc[p] = "idle"
        /\ resp[p].status = "stored"
        /\ failures = 1
        /\ alerts # <<>>
        /\ alerts[Len(alerts)].ID = resp[p].id
        /\ disk[dataFile] # MarshalIndent(alerts, nextID)

\* C9: a reload that finds no backing file reports success and leaves the
\* store empty, whatever the sequence held before.
C9_MissingFileEmptiesStore ==
    [][\A p \in Procs :
          (LoadBegin(p, MaxRequests) /\ disk[dataFile].state = "absent"
           /\ failures' = failures) =>
              /\ pc'[p] = "rl_count"
              /\ alerts' = <<>>
      ]_vars

\* C10: every POST /webhook whose body was read stores exactly one record
\* and answers 200 with ok:true and the id of that record; a body that is
\* neither JSON nor a payload=<json> form is stored as alert_type "unparsed"
\* with raw_text its bytes, and the response carries parse_error.
C10_WebhookAlwaysStores ==
    [][\A p \in Procs :
          /\ WebhookAppend(p) =>
                /\ Len(alerts') = Len(alerts) + 1
                /\ alerts'[Len(alerts')] = req[p].alert
                /\ \A i \in 1..Len(alerts) : alerts[i].ID # req[p].alert.ID
          /\ WebhookSave(p) =>
                LET a == alerts'[Len(alerts')]
                    b == req[p].rawBody
                IN  /\ alerts' = alerts
                    /\ a = req[p].alert
                    /\ resp'[p].code = 200
                    /\ resp'[p].ok
                    /\ resp'[p].id = a.ID
                    /\ (b.json = NoJSON /\ b.payload = NoJSON) =>
                          /\ a.AlertType = "unparsed"
                          /\ a.RawText = b.bytes
                          /\ resp'[p].parse_error
      ]_vars

\* C10's case: a body that is no JSON has been stored as "unparsed" and
\* answered with its id and parse_error.
C10_Witness ==
    \E p \in Procs :
        /\ resp[p].status = "stored"
        /\ resp[p].code = 200
        /\ resp[p].parse_error
        /\ alerts # <<>>
        /\ alerts[Len(alerts)].ID = resp[p].id
        /\ alerts[Len(alerts)].AlertType = "unparsed"
        /\ alerts[Len(alerts)].RawText = BodyBinary.bytes

\* C11 as stated: of every record stored, for every body (the empty one
\* included), exactly one holds: structured extraction succeeded, or the
\* record has alert_type "unparsed" and a non-empty raw_text.
C11_ParsedXorUnparsed ==
    [][\A p \in Procs :
          WebhookAppend(p) =>
              LET a == req[p].alert
                  parsed == ~req[p].parseErr
                  unparsed == a.AlertType = "unparsed" /\ a.RawText # ""
              IN  parsed # unparsed
      ]_vars

\* C11 as amended: of every record stored, exactly one holds: structured
\* extraction succeeded (no parse error, raw_text empty, raw the JSON text),
\* or the record has alert_type "unparsed", no raw and raw_text equal to the
\* bytes of the body, which are empty if and only if the body is.
C11_ParsedXorBodyKept ==
    [][\A p \in Procs :
          WebhookAppend(p) =>
              LET a == req[p].alert
                  b == req[p].rawBody
                  parsed == ~req[p].parseErr
                  unparsed == a.AlertType = "unparsed" /\ a.RawText = b.bytes
                              /\ a.Raw = RawNil
              IN  /\ parsed # unparsed
                  /\ parsed => a.RawText = "" /\ a.Raw # RawNil /\ b.bytes # ""
                  /\ b.bytes = "" => unparsed
      ]_vars

\* C11's case: the empty body has been stored, as an "unparsed" record whose
\* raw_text is empty, and answered with parse_error.
C11_Witness ==
    /\ Len(alerts) = 1
    /\ alerts[1].AlertType = "unparsed"
    /\ alerts[1].RawText = ""
    /\ alerts[1].Raw = RawNil
    /\ resp["p1"].status = "stored"
    /\ resp["p1"].parse_error

\* C12: a body that is not collector schema and is not a top-level JSON
\* object (nor carries one in its payload form field) is stored as
\* alert_type "unparsed" with raw_text its bytes; only an object is handled
\* as generic schema.
C12_GenericOnlyForObjects ==
    [][\A p \in Procs :
          WebhookAppend(p) =>
              LET a == req[p].alert
                  b == req[p].rawBody
                  isObject == b.json.t = "object" \/ b.payload.t = "object"
                  collector == tryDecodeCollector(b).ok
              IN  /\ (~collector /\ ~isObject) =>
                        /\ a.AlertType = "unparsed"
                        /\ a.RawText = b.bytes
                        /\ req[p].parseErr
                  /\ (~collector /\ ~req[p].parseErr) => isObject
      ]_vars

\* C13 as stated: a JSON object whose alert field is a non-blank string is
\* recognized as collector schema, with a severity and a title, whether or
\* not some of its fields are JSON numbers.
C13_NumbersOrStrings ==
    [][\A p \in Procs :
          WebhookAppend(p) =>
              LET a == req[p].alert
                  b == req[p].rawBody
              IN  (b.json.t = "object" /\ TrimSpace(DecodeString(b.json.o, "alert")) # "") =>
                      /\ a.Severity \in {"LOW", "MED", "HIGH"}
                      /\ a.Title # ""
                      /\ a.AlertType = DecodeString(b.json.o, "alert")
      ]_vars

\* C13 as amended: a JSON object whose alert field is a non-blank string is
\* recognized as collector schema, with a severity and a title, when every
\* collector field it carries is a JSON string or null; when one of them is a
\* JSON number the decode fails and the body is handled as generic schema:
\* no severity, no title, no parse error, raw the body.
C13_StringsOnly ==
    [][\A p \in Procs :
          WebhookAppend(p) =>
              LET a == req[p].alert
                  b == req[p].rawBody
                  o == b.json.o
                  fieldTypes == {o[i].v.t : i \in {n \in 1..Len(o) :
                                     \E tag \in CollectorTags : EqualFold(o[n].k, tag)}}
              IN  (b.json.t = "object" /\ TrimSpace(DecodeString(o, "alert")) # "") =>
                      /\ fieldTypes \subseteq {"string", "null"} =>
                            /\ a.Severity \in {"LOW", "MED", "HIGH"}
                            /\ a.Title # ""
                            /\ a.AlertType = DecodeString(o, "alert")
                      /\ "number" \in fieldTypes =>
                            /\ a.Severity = ""
                            /\ a.Title = ""
                            /\ a.PID = ""
                            /\ ~req[p].parseErr
                            /\ a.Raw = RawMessage(b.bytes, b.layout)
      ]_vars

\* C13's case: the collector body with numeric euid and pid has been stored
\* as a generic record.
C13_Witness ==
    /\ Len(alerts) = 1
    /\ alerts[1].Raw = RawMessage(BodyNumeric.bytes, "wire")
    /\ alerts[1].Severity = ""
    /\ alerts[1].Title = ""
    /\ resp["p1"].status = "stored"
    /\ ~resp["p1"].parse_error

SeverityRule(exe, euid) ==
    IF euid = "0" /\ \E h \in {"/tmp/", "/dev/shm/", "/var/tmp/"} : HasPrefix(exe, h)
    THEN "HIGH"
    ELSE IF \E l \in {"/usr/bin/", "/bin/", "/usr/sbin/", "/sbin/"} : HasPrefix(exe, l)
    THEN "LOW"
    ELSE IF exe # "" THEN "MED"
    ELSE "LOW"

\* C15 as stated: the severity of every collector record is SeverityRule of
\* the exe and the euid the payload carries, and is one of LOW, MED, HIGH.
C15_SeverityPriority ==
    [][\A p \in Procs :
          (WebhookAppend(p) /\ tryDecodeCollector(req[p].rawBody).ok) =>
              LET a == req[p].alert
              IN  /\ a.Severity = SeverityRule(a.Exe, a.EUID)
                  /\ a.Severity \in {"LOW", "MED", "HIGH"}
      ]_vars

\* C15 as amended: the severity of every collector record is SeverityRule of
\* the exe and the euid with the white space around them trimmed, and is one
\* of LOW, MED, HIGH.
C15_SeverityPriorityTrimmed ==
    [][\A p \in Procs :
          (WebhookAppend(p) /\ tryDecodeCollector(req[p].rawBody).ok) =>
              LET a == req[p].alert
              IN  /\ a.Severity = SeverityRule(TrimSpace(a.Exe), TrimSpace(a.EUID))
                  /\ a.Severity \in {"LOW", "MED", "HIGH"}
      ]_vars

\* C15's case: a collector record whose euid and exe carry white space has
\* been stored as HIGH.
C15_Witness ==
    /\ Len(alerts) = 1
    /\ alerts[1].EUID = " 0"
    /\ alerts[1].Exe = " /tmp/x"
    /\ alerts[1].Severity = "HIGH"
    /\ resp["p1"].status = "stored"

\* The title rule of C16, of the actor, the effective uid, the raw audit text
\* and the executable path.
TitleRule(actor, euid, raw, exe) ==
    actor \o (IF euid = "0" THEN ", acting as root" ELSE "") \o ", "
          \o (IF Contains(raw, "success=yes") THEN "successfully executed" ELSE "executed")
          \o " " \o (IF exe = "" THEN "(unknown exe)" ELSE exe)

\* Whether the raw audit text holds a quoted AUID="...", closing quote
\* included.
HasQuotedAUID(raw) ==
    /\ Index(raw, "AUID=\"") >= 0
    /\ Index(SubSeq(raw, Index(raw, "AUID=\"") + 7, Len(raw)), "\"") >= 0

\* C16 as stated: the title of every collector record is TitleRule of the
\* fields the payload carries, the actor being the quoted AUID of the raw
\* audit text if there is one, else the auid field, else "unknown user".
C16_Title ==
    [][\A p \in Procs :
          (WebhookAppend(p) /\ tryDecodeCollector(req[p].rawBody).ok) =>
              LET a == req[p].alert
                  actor == IF HasQuotedAUID(a.RawEv) THEN extractQuotedKV(a.RawEv, "AUID")
                           ELSE IF a.AUID # "" THEN a.AUID
                           ELSE "unknown user"
              IN  a.Title = TitleRule(actor, a.EUID, a.RawEv, a.Exe)
      ]_vars

\* C16 as amended: the title of every collector record is TitleRule of the
\* euid, auid and exe with the white space around them trimmed, the actor
\* being the quoted AUID of the raw audit text if there is one and it is not
\* empty, else the trimmed auid field, else "unknown user".
C16_TitleTrimmed ==
    [][\A p \in Procs :
          (WebhookAppend(p) /\ tryDecodeCollector(req[p].rawBody).ok) =>
              LET a == req[p].alert
                  quoted == IF HasQuotedAUID(TrimSpace(a.RawEv))
                            THEN extractQuotedKV(a.RawEv, "AUID") ELSE ""
                  actor == IF quoted # "" THEN quoted
                           ELSE IF TrimSpace(a.AUID) # "" THEN TrimSpace(a.AUID)
                           ELSE "unknown user"
              IN  /\ a.Title = TitleRule(actor, TrimSpace(a.EUID), a.RawEv, TrimSpace(a.Exe))
                  /\ req[p].rawBody = BodyCollector =>
                        a.Title = "nala, acting as root, successfully executed /tmp/x"
      ]_vars

\* C16's case: the collector body of the README has been stored under its
\* title.
C16_Witness ==
    /\ Len(alerts) = 1
    /\ alerts[1].Raw = RawMessage(BodyCollector.bytes, "wire")
    /\ alerts[1].AUID = "1000"
    /\ alerts[1].Title = "nala, acting as root, successfully executed /tmp/x"
    /\ resp["p1"].status = "stored"

\* The values a key of src stringifies to, non-empty, in any letter case.
FoldValues(src, k) == {stringify(src[sk]) : sk \in {x \in DOMAIN src : EqualFold(x, k)}} \ {""}

\* pickString as C19 describes it: every key verbatim first, in order; the
\* keys in any letter case only if none matched verbatim.
PickTwoPass(src, keys) ==
    LET exact == {i \in 1..Len(keys) : keys[i] \in DOMAIN src /\ stringify(src[keys[i]]) # ""}
        folded == {i \in 1..Len(keys) : FoldValues(src, keys[i]) # {}}
    IN  IF exact # {} THEN {stringify(src[keys[Min(exact)]])}
        ELSE IF folded # {} THEN FoldValues(src, keys[Min(folded)])
        ELSE {""}

\* pickString key by key: the first key that has a non-empty value in any
\* letter case decides, its verbatim spelling first.
PickPerKey(src, keys) ==
    LET folded == {i \in 1..Len(keys) : FoldValues(src, keys[i]) # {}}
        k == keys[Min(folded)]
    IN  IF folded = {} THEN {""}
        ELSE IF k \in DOMAIN src /\ stringify(src[k]) # "" THEN {stringify(src[k])}
        ELSE FoldValues(src, k)

\* C19 as stated: the host of every generic record is what PickTwoPass
\* finds in the result object: a verbatim match on a later key wins over a
\* match in another letter case on an earlier key.
C19_ExactBeforeFold ==
    [][\A p \in Procs :
          (WebhookAppend(p) /\ ~tryDecodeCollector(req[p].rawBody).ok /\ ~req[p].parseErr) =>
              LET result == extractResult(decodePayloadBytes(req[p].rawBody).payload)
              IN  req[p].alert.Host \in PickTwoPass(result, HostKeys)
      ]_vars

\* C19 as amended: the host of every generic record is what PickPerKey finds
\* in the result object: for each candidate key in order, the key verbatim
\* and then the key in any letter case, before the next candidate key; so a
\* match in another letter case on an earlier key wins over a verbatim match
\* on a later key.
C19_KeyByKey ==
    [][\A p \in Procs :
          (WebhookAppend(p) /\ ~tryDecodeCollector(req[p].rawBody).ok /\ ~req[p].parseErr) =>
              LET result == extractResult(decodePayloadBytes(req[p].rawBody).payload)
              IN  /\ req[p].alert.Host \in PickPerKey(result, HostKeys)
                  /\ pickString(result, HostKeys) = PickPerKey(result, HostKeys)
      ]_vars

\* C19's case: of {"HOST": "a", "hostname": "b"} the record stored has host
\* "a".
C19_Witness ==
    /\ Len(alerts) = 1
    /\ alerts[1].Raw = RawMessage(BodyFoldFirst.bytes, "wire")
    /\ alerts[1].Host = "a"
    /\ resp["p1"].status = "stored"

\* C17: the file a reload reads is alerts_history.json, whatever appends,
\* reloads and rotations came before.
C17_ReloadReadsHistFile ==
    [][\A p \in Procs :
          LoadBegin(p, MaxRequests) =>
              /\ dataFile = HistFile
              /\ pc'[p] = "ld_alerts" => req'[p].snap = disk[HistFile]
      ]_vars

\* C18: a request that is rejected leaves the store as it was: a request
\* with a method its path does not accept is answered 405, a POST /webhook
\* whose body cannot be read is answered 400, and neither changes the
\* sequence, the next id, the backing file path or any file.
C18_RejectedLeavesStore ==
    [][\A p \in Procs :
          /\ \A path \in Paths : \A method \in Methods :
                MethodNotAllowed(p, path, method, MaxRequests) =>
                    /\ method = (IF path \in {"/api/alerts", "/alerts"} THEN "POST" ELSE "GET")
                    /\ resp'[p].code = 405
                    /\ resp'[p].path = path
                    /\ <<alerts', nextID', dataFile', disk'>> = <<alerts, nextID, dataFile, disk>>
          /\ WebhookReadError(p, MaxRequests) =>
                /\ resp'[p].code = 400
                /\ resp'[p].path = "/webhook"
                /\ <<alerts', nextID', dataFile', disk'>> = <<alerts, nextID, dataFile, disk>>
      ]_vars

\* C18's case: one goroutine has been answered 405 and the other 400, and
\* the record of the history file is still in memory and on disk.
C18_Witness ==
    /\ \E p \in Procs : resp[p].code = 405 /\ resp[p].path = "/api/history/rotate"
    /\ \E p \in Procs : resp[p].code = 400
    /\ Len(alerts) = 1
    /\ nextID = 2
    /\ disk[dataFile] = MarshalIndent(alerts, nextID)

\* C20: whenever the mutex is free and no disk operation has failed, the
\* backing file, once an append, a rotate or an earlier run has written it,
\* holds the snapshot of the sequence and the next id that are in memory.
C20_FileFollowsMemory ==
    (alertsMu = "free" /\ failures = 0 /\ disk[dataFile].state # "absent") =>
        disk[dataFile] = MarshalIndent(alerts, nextID)

\* C20's case: after a rotate and an append, with no failure and the mutex
\* free, the timestamped backing file holds the one record in memory.
C20_Witness ==
    /\ alertsMu = "free"
    /\ failures = 0
    /\ \E p \in Procs : resp[p].status = "rotated"
    /\ \E p \in Procs : resp[p].status = "stored"
    /\ dataFile # HistFile
    /\ Len(alerts) = 1
    /\ disk[dataFile].state = "ok"
    /\ disk[dataFile].next_id = nextID
    /\ disk[dataFile].alerts = EncodeAlerts(alerts)

\* C21: after a restart the store holds the records and the next id of the
\* snapshot last written to the backing file that was active before the
\* restart (the file that file holds, when it holds a snapshot), whatever
\* appends, reloads and rotations came before.
C21_RestartResumesActiveFile ==
    [][(Restart /\ disk[dataFile].state = "ok") =>
          /\ alerts' = disk[dataFile].alerts
          /\ nextID' = disk[dataFile].next_id
      ]_vars

\* C22: the count in the response of a reload is the number of records
\* that this reload loaded into memory (those of the snapshot it read),
\* whatever the other goroutine does meanwhile.
C22_CountIsWhatWasLoaded ==
    [][\A p \in Procs :
          ReloadCount(p) => resp'[p].count = Len(req[p].snap.alerts)
      ]_vars

\* C23: generic extraction is deterministic: for every generic body,
\* pickString has one value for the host keys of its result object, and the
\* record the handler holds is the only one extractAlert can build from it.
C23_ExtractionDeterministic ==
    [][\A p \in Procs :
          (WebhookAppend(p) /\ ~tryDecodeCollector(req[p].rawBody).ok /\ ~req[p].parseErr) =>
              LET d == decodePayloadBytes(req[p].rawBody)
              IN  /\ Cardinality(pickString(extractResult(d.payload), HostKeys)) = 1
                  /\ \A x \in extractAlert(d.payload, d.rawJSON) : x.Host = req[p].alert.Host
      ]_vars

====
